---- MODULE Spec2Model ----
(***************************************************************************)
(* SVG-Gen: the App lifecycle (App.tsx), the InputSection form             *)
(* (components/InputSection.tsx) and the Gemini service wrapper            *)
(* (services/geminiService.ts).                                            *)
(*                                                                         *)
(* JavaScript strings are modelled as sequences of atoms.  Text that the   *)
(* code inspects (prompts, service replies, error messages, MIME types)    *)
(* is a sequence of single characters; a fixed literal that the code only  *)
(* stores and displays is a one-atom sequence holding the literal.  The    *)
(* empty sequence stands for both '' and undefined: every use the code     *)
(* makes of such a value is a truthiness test (x || y, if (x)).            *)
(***************************************************************************)
EXTENDS Integers, Sequences, FiniteSets, Bags, TLC

VARIABLES
    status,         \* App: useState<GenerationStatus>
    currentSvg,     \* App: useState<GeneratedSvg | null>
    error,          \* App: useState<ApiError | null>
    input,          \* InputSection: useState('')
    selectedImage,  \* InputSection: useState<ImageData | null>
    selectedStyle,  \* InputSection: useState<SvgStyle>
    traceSettings,  \* InputSection: useState<TraceSettings>
    readers,        \* FileReaders whose onloadend has not fired yet (a bag of closures)
    inflight,       \* generateContent calls awaiting the service (a bag of requests)
    lastOp          \* the handler that ran last and what it observed

appVars == <<status, currentSvg, error>>
formVars == <<input, selectedImage, selectedStyle, traceSettings>>
vars == <<status, currentSvg, error, input, selectedImage, selectedStyle,
          traceSettings, readers, inflight, lastOp>>

\* ---------------------------------------------------------------- bounds
\* Error messages of the classification specification are built from at most
\* MaxFragments fragments.
MaxFragments == 2
\* FileReaders that may be reading at the same time.
MaxReaders == 1
\* crypto.randomUUID() draws from 1..MaxUuid.
MaxUuid == 1
\* Date.now() draws from 1..MaxClock.
MaxClock == 1
\* Reply texts of the interpretation specification are built from at most
\* MaxPieces pieces.
MaxPieces == 4

\* ---------------------------------------------------------------- values
NULL == [null |-> TRUE]

IDLE == "IDLE"
LOADING == "LOADING"
SUCCESS == "SUCCESS"
ERROR == "ERROR"
GenerationStatus == {IDLE, LOADING, SUCCESS, ERROR}

STYLES == <<"Vector Trace", "Flat", "Material", "Line Art", "Low Poly",
            "Minimalist", "Isometric", "Blueprint", "Cyberpunk", "Gradient",
            "Pixel Art", "Hand Drawn", "Pop Art", "Paper Cutout">>
SvgStyle == {STYLES[i] : i \in 1..Len(STYLES)}

TraceComplexity == {"Low", "Medium", "High"}
TraceColors == {"Monochrome", "Limited", "Full"}
TraceStrokeWeight == {"Thin", "Standard", "Thick"}
TraceLineCap == {"Butt", "Round", "Square"}
TraceLineFill == {"None", "Solid"}
TraceSettings == [complexity : TraceComplexity, colors : TraceColors,
                  strokeWeight : TraceStrokeWeight, lineCap : TraceLineCap,
                  lineFill : TraceLineFill]
InitialTraceSettings == [complexity |-> "Medium", colors |-> "Limited",
                         strokeWeight |-> "Standard", lineCap |-> "Round",
                         lineFill |-> "None"]

\* ---------------------------------------------------------------- strings
Truthy(s) == s # <<>>
\* a || b on strings
OrElse(a, b) == IF Truthy(a) THEN a ELSE b

UpperLetters == <<"A","B","C","D","E","F","G","H","I","J","K","L","M",
                  "N","O","P","Q","R","S","T","U","V","W","X","Y","Z">>
LowerLetters == <<"a","b","c","d","e","f","g","h","i","j","k","l","m",
                  "n","o","p","q","r","s","t","u","v","w","x","y","z">>
LowerChar(c) ==
    IF \E i \in 1..Len(UpperLetters) : UpperLetters[i] = c
    THEN LowerLetters[CHOOSE i \in 1..Len(UpperLetters) : UpperLetters[i] = c]
    ELSE c
\* String.prototype.toLowerCase
ToLowerCase(s) == [i \in 1..Len(s) |-> LowerChar(s[i])]

\* s has pat at position i (1-based)
MatchAt(s, pat, i) ==
    /\ i >= 1
    /\ i + Len(pat) - 1 <= Len(s)
    /\ \A k \in 1..Len(pat) : s[i + k - 1] = pat[k]
\* String.prototype.includes
Includes(s, pat) == \E i \in 1..(Len(s) + 1) : MatchAt(s, pat, i)
\* String.prototype.startsWith
StartsWith(s, pat) == MatchAt(s, pat, 1)

IsSpace(c) == c \in {" ", "\n", "\t"}
RECURSIVE TrimStart(_)
TrimStart(s) == IF s # <<>> /\ IsSpace(Head(s)) THEN TrimStart(Tail(s)) ELSE s
RECURSIVE TrimEnd(_)
TrimEnd(s) ==
    IF s # <<>> /\ IsSpace(s[Len(s)]) THEN TrimEnd(SubSeq(s, 1, Len(s) - 1)) ELSE s
\* String.prototype.trim
Trim(s) == TrimEnd(TrimStart(s))

\* ---------------------------------------------------------------- geminiService
Return(v) == [ok |-> TRUE, value |-> v, error |-> NULL]
Throw(e) == [ok |-> FALSE, value |-> <<>>, error |-> e]

\* What ai.models.generateContent can do: resolve with a response whose .text is
\* a string (or undefined, the empty sequence), or reject with an Error that
\* has a message and neither details nor suggestion.
Responds(text) == [kind |-> "text", text |-> text, message |-> <<>>]
Rejects(message) == [kind |-> "throw", text |-> <<>>, message |-> message]
ServiceError(message) == [message |-> message, details |-> <<>>, suggestion |-> <<>>]

OpenTag == <<"<", "s", "v", "g">>
CloseTag == <<"<", "/", "s", "v", "g", ">">>

\* Faulty variant: a greedy span, up to the last closing tag.
SvgMatchGreedy(rawText) ==
    LET low == ToLowerCase(rawText)
        Closes(i) == {j \in (i + Len(OpenTag))..Len(low) : MatchAt(low, CloseTag, j)}
        Opens == {i \in 1..Len(low) : MatchAt(low, OpenTag, i) /\ Closes(i) # {}}
    IN  IF Opens = {} THEN <<>>
        ELSE LET i == CHOOSE x \in Opens : \A y \in Opens : x <= y
                 j == CHOOSE x \in Closes(i) : \A y \in Closes(i) : x >= y
             IN  SubSeq(rawText, i, j + Len(CloseTag) - 1)
\* rawText.match(/<svg[\s\S]*?<\/svg>/i): the leftmost opening tag that has a
\* closing tag after it, up to the nearest such closing tag; <<>> when null.
SvgMatch(rawText) ==
    LET low == ToLowerCase(rawText)
        Closes(i) == {j \in (i + Len(OpenTag))..Len(low) : MatchAt(low, CloseTag, j)}
        Opens == {i \in 1..Len(low) : MatchAt(low, OpenTag, i) /\ Closes(i) # {}}
    IN  IF Opens = {} THEN <<>>
        ELSE LET i == CHOOSE x \in Opens : \A y \in Opens : x <= y
                 j == CHOOSE x \in Closes(i) : \A y \in Closes(i) : x <= y
             IN  SubSeq(rawText, i, j + Len(CloseTag) - 1)

\* s.replace(/pat/g, ''): one left-to-right pass over non-overlapping matches.
RECURSIVE ReplaceAll(_, _)
ReplaceAll(s, pat) ==
    IF s = <<>> THEN <<>>
    ELSE IF MatchAt(s, pat, 1) THEN ReplaceAll(SubSeq(s, Len(pat) + 1, Len(s)), pat)
    ELSE <<Head(s)>> \o ReplaceAll(Tail(s), pat)

\* The atom of the backquote character (U+0060).
Backquote == "BACKQUOTE"
Fence == <<Backquote, Backquote, Backquote>>
FenceXml == Fence \o <<"x", "m", "l">>
FenceSvg == Fence \o <<"s", "v", "g">>
Cleaned(rawText) ==
    Trim(ReplaceAll(ReplaceAll(ReplaceAll(rawText, FenceXml), FenceSvg), Fence))

NoSvgError ==
    [message |-> <<"Generation Format Error">>,
     details |-> <<"The model generated a response but no valid SVG code was found.">>,
     suggestion |-> <<"Try simplifying your prompt or selecting the 'Flat' style which is more consistent.">>]

\* Faulty variant: the fallback returns any cleaned text that is not empty.
ExtractSvgAcceptsAnyText(text) ==
    LET rawText == OrElse(text, <<>>)
        svgMatch == SvgMatch(rawText)
        cleaned == Cleaned(rawText)
    IN  IF Truthy(svgMatch) THEN Return(svgMatch)
        ELSE IF Truthy(cleaned) THEN Return(cleaned)
        ELSE Throw(NoSvgError)
\* The extraction of generateSvgFromPrompt, from response.text to return/throw.
ExtractSvg(text) ==
    LET rawText == OrElse(text, <<>>)
        svgMatch == SvgMatch(rawText)
        cleaned == Cleaned(rawText)
    IN  IF Truthy(svgMatch) THEN Return(svgMatch)
        ELSE IF Includes(cleaned, OpenTag) /\ Includes(cleaned, CloseTag)
        THEN Return(cleaned)
        ELSE Throw(NoSvgError)

ContentFlagged ==
    [message |-> <<"Content Flagged">>,
     details |-> <<"The request triggered the AI's safety filters.">>,
     suggestion |-> <<"Try rephrasing your prompt to be more abstract or removing sensitive keywords.">>]
SystemOverloaded ==
    [message |-> <<"System Overloaded">>,
     details |-> <<"API quota exceeded or system is currently busy.">>,
     suggestion |-> <<"Please wait a minute before trying again.">>]
InvalidRequest ==
    [message |-> <<"Invalid Request">>,
     details |-> <<"The model rejected the input, possibly due to image format or size.">>,
     suggestion |-> <<"Try using a smaller image (under 4MB) or a standard format like JPG/PNG.">>]
AuthenticationError ==
    [message |-> <<"Authentication Error">>,
     details |-> <<"There is an issue with the API key.">>,
     suggestion |-> <<"Please check your environment configuration.">>]
ConnectionError(message) ==
    [message |-> <<"Connection Error">>,
     details |-> OrElse(message, <<"An unexpected error occurred.">>),
     suggestion |-> <<"Check your internet connection or try again later.">>]

\* The substrings the catch block looks for in the lowercased message.
KwSafety == <<"s","a","f","e","t","y">>
KwBlocked == <<"b","l","o","c","k","e","d">>
Kw429 == <<"4","2","9">>
KwQuota == <<"q","u","o","t","a">>
KwExhausted == <<"e","x","h","a","u","s","t","e","d">>
Kw400 == <<"4","0","0">>
KwInvalidArgument == <<"i","n","v","a","l","i","d"," ","a","r","g","u","m","e","n","t">>
KwApikey == <<"a","p","i","k","e","y">>
Kw403 == <<"4","0","3">>

\* Faulty variant: the second rule is tried before the first.
ClassifyOverloadedFirst(message) ==
    LET errorMsg == ToLowerCase(OrElse(message, <<>>))
    IN  IF Includes(errorMsg, Kw429) \/ Includes(errorMsg, KwQuota)
           \/ Includes(errorMsg, KwExhausted)
        THEN SystemOverloaded
        ELSE IF Includes(errorMsg, KwSafety) \/ Includes(errorMsg, KwBlocked)
        THEN ContentFlagged
        ELSE IF Includes(errorMsg, Kw400) \/ Includes(errorMsg, KwInvalidArgument)
        THEN InvalidRequest
        ELSE IF Includes(errorMsg, KwApikey) \/ Includes(errorMsg, Kw403)
        THEN AuthenticationError
        ELSE ConnectionError(message)
\* The else-if chain of the catch block, on the error's message.
Classify(message) ==
    LET errorMsg == ToLowerCase(OrElse(message, <<>>))
    IN  IF Includes(errorMsg, KwSafety) \/ Includes(errorMsg, KwBlocked)
        THEN ContentFlagged
        ELSE IF Includes(errorMsg, Kw429) \/ Includes(errorMsg, KwQuota)
                \/ Includes(errorMsg, KwExhausted)
        THEN SystemOverloaded
        ELSE IF Includes(errorMsg, Kw400) \/ Includes(errorMsg, KwInvalidArgument)
        THEN InvalidRequest
        ELSE IF Includes(errorMsg, KwApikey) \/ Includes(errorMsg, Kw403)
        THEN AuthenticationError
        ELSE ConnectionError(message)

\* Faulty variant: no rethrow of an error that carries a suggestion.
CatchAlwaysClassifies(err) == Throw(Classify(err.message))
\* catch (error) of generateSvgFromPrompt: a structured error is rethrown,
\* anything else is classified.
Catch(err) ==
    IF Truthy(err.suggestion) THEN Throw(err) ELSE Throw(Classify(err.message))

\* Faulty variant: the reply text is returned without extraction.
GenerateSvgFromPromptUnchecked(outcome) ==
    IF outcome.kind = "text"
    THEN Return(OrElse(outcome.text, <<>>))
    ELSE Catch(ServiceError(outcome.message))
\* generateSvgFromPrompt from the point where generateContent settles.
GenerateSvgFromPrompt(outcome) ==
    IF outcome.kind = "text"
    THEN LET r == ExtractSvg(outcome.text)
         IN  IF r.ok THEN r ELSE Catch(r.error)
    ELSE Catch(ServiceError(outcome.message))

\* ------------------------------------------------------- prompt composition
\* Setting values and the two advanced style names are enumeration literals; the
\* composer changes the case of some of them, so these are their characters.
Chars(literal) ==
    CASE literal = "Vector Trace" -> <<"V","e","c","t","o","r"," ","T","r","a","c","e">>
      [] literal = "Line Art" -> <<"L","i","n","e"," ","A","r","t">>
      [] literal = "Butt" -> <<"B","u","t","t">>
      [] literal = "Round" -> <<"R","o","u","n","d">>
      [] literal = "Square" -> <<"S","q","u","a","r","e">>
UpperChar(c) ==
    IF \E i \in 1..Len(LowerLetters) : LowerLetters[i] = c
    THEN UpperLetters[CHOOSE i \in 1..Len(LowerLetters) : LowerLetters[i] = c]
    ELSE c
\* String.prototype.toUpperCase
ToUpperCase(s) == [i \in 1..Len(s) |-> UpperChar(s[i])]

\* Faulty variant: Line Art is put in the precision band.
GetTemperatureForStyleLineArtPrecise(style) ==
    CASE style \in {"Vector Trace", "Blueprint", "Pixel Art", "Isometric", "Line Art"} -> 15
      [] style \in {"Flat", "Material", "Minimalist", "Low Poly"} -> 30
      [] style \in {"Hand Drawn", "Gradient", "Cyberpunk", "Pop Art"} -> 60
      [] OTHER -> 40
\* getTemperatureForStyle, in hundredths.
GetTemperatureForStyle(style) ==
    CASE style \in {"Vector Trace", "Blueprint", "Pixel Art", "Isometric"} -> 15
      [] style \in {"Flat", "Material", "Minimalist", "Low Poly"} -> 30
      [] style \in {"Hand Drawn", "Gradient", "Cyberpunk", "Pop Art"} -> 60
      [] OTHER -> 40

\* The instructions record of getStyleInstructions.
instructions ==
    "Vector Trace" :> <<"Goal: PHOTOREALISTIC REPRODUCTION. Trace the input image exactly. Use as many paths and gradients as necessary to capture the full detail, lighting, and shading of the original image. Do not simplify or stylize unless asked.">> @@
    "Flat" :> <<"Goal: Clean, modern flat design. No gradients, drop shadows, or textures. Use solid colors and geometric precision.">> @@
    "Material" :> <<"Goal: Google Material Design. Use subtle depth, card-like layers, slight drop shadows (simulated with semi-transparent paths), and vibrant standard colors.">> @@
    "Line Art" :> <<"Goal: Monoline vector illustration. Use only strokes (stroke-width=\"2\" or similar), no fill (or white fill). Focus on the outline and essential details.">> @@
    "Blueprint" :> <<"Goal: Technical architectural blueprint. Background color must be #0f4c81 (Classic Blue) or #0022AA. All lines should be white. Use dashed lines for hidden details. Add measurement markers if applicable.">> @@
    "Cyberpunk" :> <<"Goal: Futuristic, high-tech aesthetic. Use a dark background (#000 or #111). Neon colors: Cyan (#00f3ff), Magenta (#ff00ff), Lime Green. Use glitch effects (jagged paths) and glowing elements.">> @@
    "Low Poly" :> <<"Goal: Low Polygon Art. Construct the image entirely out of non-overlapping triangles. No curves. Use flat shading for each triangle to create a faceted 3D effect.">> @@
    "Isometric" :> <<"Goal: 30-degree isometric projection. Create a pseudo-3D look. maintain consistent parallel lines. clean geometric structures.">> @@
    "Pixel Art" :> <<"Goal: 8-bit or 16-bit retro style. Use small rect elements to simulate pixels. Keep all \"pixels\" aligned to a strict grid.">> @@
    "Pop Art" :> <<"Goal: Warhol/Lichtenstein style. Bold black outlines, high contrast, Ben-Day dots (simulated with pattern fills if possible, or simple dots), and vibrant primary colors.">> @@
    "Paper Cutout" :> <<"Goal: Layered paper craft effect. Use shapes with slightly offset semi-transparent black duplicates underneath to simulate drop shadows and depth between layers.">>
\* instructions[style]: undefined for a key the record does not have.
InstructionFor(style) ==
    IF style \in DOMAIN instructions THEN instructions[style] ELSE <<>>

\* The cases of the switch on traceSettings.complexity; each directive is its
\* label followed by its text.
ComplexityRule(complexity) ==
    CASE complexity = "Low" ->
           <<"\n- SIMPLIFY PATHS:",
             " Use smooth Bezier curves with minimal nodes. Remove small details and noise. Abstract shapes into clean geometry.">>
      [] complexity = "High" ->
           <<"\n- HIGH FIDELITY:",
             " Capture fine details, textures, and small elements. Use precise paths. Do not simplify.">>
      [] OTHER ->
           <<"\n- BALANCED DETAIL:",
             " Standard vectorization. Clean up noise but keep main features distinct.">>
\* The cases of the switch on traceSettings.colors.
ColorsRule(colors) ==
    CASE colors = "Monochrome" ->
           <<"\n- MONOCHROME:",
             " Use ONLY black and white (or foreground/background). No grayscale, no gradients.">>
      [] colors = "Limited" ->
           <<"\n- LIMITED PALETTE:",
             " Use a maximum of 16 distinct colors. Group similar shades (quantization). Solid fills only, minimize gradients.">>
      [] OTHER ->
           <<"\n- FULL COLOR:",
             " Use full color spectrum. Use gradients and complex shading if necessary to match the original.">>
\* The two branches on traceSettings.lineFill.
LineFillRule(lineFill) ==
    IF lineFill = "Solid"
    THEN <<"\n- FILL STYLE:",
             " Solid Fill. Fill closed shapes with the same color as the outline (or black). Do not use fill='none'. Create solid silhouettes or filled illustrations.">>
    ELSE <<"\n- FILL STYLE:",
             " No Fill (Stroke Only). Ensure ",
             Backquote, "fill=\"none\"", Backquote, " for all paths. Rely entirely on strokes to define the image.">>
\* The cases of the switch on traceSettings.strokeWeight.
StrokeWeightRule(strokeWeight) ==
    CASE strokeWeight = "Thin" ->
           <<"\n- STROKE WEIGHT:",
             " Thin lines (0.5px - 1px) where strokes are used.">>
      [] strokeWeight = "Thick" ->
           <<"\n- STROKE WEIGHT:",
             " Thick, bold lines (3px - 5px) where strokes are used.">>
      [] OTHER ->
           <<"\n- STROKE WEIGHT:",
             " Standard line width (1px - 2px) where strokes are used.">>
LineCapRule(lineCap) ==
    <<"\n- STROKE LINECAP:", " Ensure any stroked paths use 'stroke-linecap=\"">>
        \o ToLowerCase(Chars(lineCap)) \o <<"\"'.">>
SettingsHeader(style) == <<"\n">> \o ToUpperCase(Chars(style)) \o <<" SETTINGS:">>


\* Faulty variant: the line cap directive is written before the stroke weight.
GetStyleInstructionsCapFirst(style, settings) ==
    LET rule == OrElse(InstructionFor(style), <<"Goal: High quality vector art.">>)
    IN  IF (style = "Vector Trace" \/ style = "Line Art") /\ settings # NULL
        THEN rule \o SettingsHeader(style)
               \o (IF style = "Vector Trace"
                   THEN ComplexityRule(settings.complexity) \o ColorsRule(settings.colors)
                   ELSE <<>>)
               \o (IF style = "Line Art" THEN LineFillRule(settings.lineFill) ELSE <<>>)
               \o (IF settings.lineCap # "" THEN LineCapRule(settings.lineCap) ELSE <<>>)
               \o (IF settings.strokeWeight # ""
                   THEN StrokeWeightRule(settings.strokeWeight) ELSE <<>>)
        ELSE rule
\* getStyleInstructions; settings is NULL for an undefined traceSettings, and a
\* field of it is "" when it is absent.
GetStyleInstructions(style, settings) ==
    LET rule == OrElse(InstructionFor(style), <<"Goal: High quality vector art.">>)
    IN  IF (style = "Vector Trace" \/ style = "Line Art") /\ settings # NULL
        THEN rule \o SettingsHeader(style)
               \o (IF style = "Vector Trace"
                   THEN ComplexityRule(settings.complexity) \o ColorsRule(settings.colors)
                   ELSE <<>>)
               \o (IF style = "Line Art" THEN LineFillRule(settings.lineFill) ELSE <<>>)
               \o (IF settings.strokeWeight # ""
                   THEN StrokeWeightRule(settings.strokeWeight) ELSE <<>>)
               \o (IF settings.lineCap # "" THEN LineCapRule(settings.lineCap) ELSE <<>>)
        ELSE rule

\* systemPrompt: the template around the style name and the style rules.
SystemPrompt(style, styleRules) ==
    <<"You are a world-class expert in Scalable Vector Graphics (SVG) design and coding. Your task is to generate a high-quality, visually stunning, and detailed SVG based on the user's request.",
      "\nSTYLE PROTOCOL: \"", style, "\"\n">>
      \o styleRules
      \o <<"\nTECHNICAL GUIDELINES: 1. Output Format 2. Responsiveness 3. Optimization 4. Self-Contained 5. Quality">>
\* userPrompt: the multimodal template with an image, the text template without.
UserPrompt(prompt, image, style) ==
    IF image # NULL
    THEN <<"Reference Image provided. Task: Convert this image into an SVG following the \"",
           style, "\" style. Specific details from user: \"">>
           \o OrElse(prompt, <<"Convert to SVG">>) \o <<"\"">>
           \o (IF style = "Vector Trace"
               THEN <<"CRITICAL: Trace the image according to the TRACE CONFIGURATION in system instructions.">>
               ELSE <<"Interpret the image content but strictly apply the requested artistic style.">>)
    ELSE <<"Create an SVG artwork of: \"">> \o prompt \o <<"\". Style: ", style>>
\* The arguments handleGenerate received and the generateContent call
\* generateSvgFromPrompt makes for them (temperature and topP in hundredths).
GenerateContentCall(prompt, image, style, settings) ==
    [prompt |-> prompt, image |-> image, style |-> style, traceSettings |-> settings,
     contents |-> UserPrompt(prompt, image, style),
     systemInstruction |-> SystemPrompt(style, GetStyleInstructions(style, settings)),
     styleRules |-> GetStyleInstructions(style, settings),
     temperature |-> GetTemperatureForStyle(style),
     topP |-> 95,
     topK |-> 40]

\* ---------------------------------------------------------------- inputs
\* Files the user can pick: an image and a file that is not an image.
PngFile == [type |-> <<"i","m","a","g","e","/","p","n","g">>, base64 |-> <<"iVBORw0KGgo=">>]
TextFile == [type |-> <<"t","e","x","t","/","p","l","a","i","n">>, base64 |-> <<"aGVsbG8=">>]
Files == {PngFile, TextFile}

\* Style arguments of the composer: the 14 styles and a string that is none.
StyleStrings == SvgStyle \cup {"Watercolor"}
\* traceSettings arguments of the composer: undefined, every combination of
\* values, and settings whose stroke weight or line cap is absent.
TraceSettingsArgs ==
    {NULL} \cup [complexity : TraceComplexity, colors : TraceColors,
                 strokeWeight : TraceStrokeWeight \cup {""},
                 lineCap : TraceLineCap \cup {""}, lineFill : TraceLineFill]

\* Texts typed into the prompt field: empty, whitespace only, padded text.
PromptInputs == {<<>>, <<" ">>, <<" ", "a", " ">>}

\* Styles clicked in the lifecycle specification: the default style and the two
\* advanced styles.
LifecycleStyles == {"Flat", "Vector Trace", "Line Art"}

\* response.text values of the service.
Replies ==
    { OpenTag \o <<">">> \o CloseTag,
      <<"x">> \o OpenTag \o <<">">> \o CloseTag \o <<"y">>,
      <<"<", "S", "V", "G", ">", "<", "/", "S", "V", "G", ">">>,
      CloseTag \o OpenTag,
      <<"n", "o">>,
      <<>> }

\* Messages of the errors generateContent rejects with.
ErrorMessages ==
    { <<>>,
      <<"S","A","F","E","T","Y">>,
      <<"4","2","9"," ","b","l","o","c","k","e","d">>,
      <<"4","0","3">>,
      <<"n","e","t">> }

\* Pieces of error messages: each keyword of the catch block in some letter
\* case, and a piece that matches no rule.
Fragments ==
    { KwSafety,
      <<"B","L","O","C","K","E","D">>,
      Kw429,
      <<"Q","u","o","t","a">>,
      KwExhausted,
      Kw400,
      <<"I","n","v","a","l","i","d"," ","A","r","g","u","m","e","n","t">>,
      KwApikey,
      Kw403,
      <<"x">> }
RECURSIVE MessagesOf(_)
MessagesOf(n) ==
    IF n = 0 THEN {<<>>}
    ELSE LET shorter == MessagesOf(n - 1)
         IN  shorter \cup {m \o f : m \in shorter, f \in Fragments}
ClassifierMessages == MessagesOf(MaxFragments)

\* Pieces of reply texts: the two tags in lower and in upper case, and an
\* opening tag with a fence delimiter inside it.
SplitOpenTag == <<"<", "s">> \o Fence \o <<"v", "g">>
ReplyPieces ==
    { OpenTag,
      CloseTag,
      <<"<", "S", "V", "G">>,
      <<"<", "/", "S", "V", "G", ">">>,
      SplitOpenTag }
RECURSIVE RepliesOf(_)
RepliesOf(n) ==
    IF n = 0 THEN {<<>>}
    ELSE LET shorter == RepliesOf(n - 1)
         IN  shorter \cup {r \o p : r \in shorter, p \in ReplyPieces}
PieceReplies == RepliesOf(MaxPieces)

\* ---------------------------------------------------------------- observation
\* lastOp: the handler that ran, whether it took its main branch, the status it
\* ran in and its argument; for the two image handlers also the style that was
\* selected when they ran.
NoStyle == "-"
Op(name, ok, arg) ==
    [op |-> name, ok |-> ok, status |-> status, style |-> NoStyle, arg |-> arg]
ImageOp(name, ok, arg) ==
    [op |-> name, ok |-> ok, status |-> status, style |-> selectedStyle, arg |-> arg]

\* ---------------------------------------------------------------- InputSection
IsAdvanced(style) == style = "Vector Trace" \/ style = "Line Art"

\* STYLE_GUIDES: the description and the example prompts shown for a style.
STYLE_GUIDES ==
    "Vector Trace" :>
      [description |-> <<"Converts uploaded images into exact vector paths. Best used with an image attachment.">>,
       examples |-> <<<<"Trace this logo exactly">>, <<"Convert sketch to vector">>, <<"Vectorize this icon">>>>] @@
    "Flat" :>
      [description |-> <<"Clean, modern 2D illustrations with solid colors and no gradients.">>,
       examples |-> <<<<"Flat design rocket ship">>, <<"Minimalist forest landscape">>, <<"Modern coffee cup icon">>>>] @@
    "Material" :>
      [description |-> <<"Google's Material Design with subtle depth, shadows, and vibrant colors.">>,
       examples |-> <<<<"Material design weather icon">>, <<"Floating action button">>, <<"Layered map marker">>>>] @@
    "Line Art" :>
      [description |-> <<"Elegant monoline illustrations using only strokes. Great for coloring books.">>,
       examples |-> <<<<"Continuous line portrait">>, <<"Botanical flower illustration">>, <<"Geometric mountain range">>>>] @@
    "Minimalist" :>
      [description |-> <<"Stripped down to essential elements. Less is more.">>,
       examples |-> <<<<"Minimalist corporate logo">>, <<"Single shape cat">>, <<"Abstract geometric composition">>>>] @@
    "Isometric" :>
      [description |-> <<"3D perspective without vanishing points. Perfect for technical diagrams.">>,
       examples |-> <<<<"Isometric data center">>, <<"3D building block">>, <<"Isometric office room">>>>] @@
    "Blueprint" :>
      [description |-> <<"Technical architectural look with white lines on a blue background.">>,
       examples |-> <<<<"Blueprint of an engine">>, <<"House floor plan">>, <<"Technical schematic of a robot">>>>] @@
    "Cyberpunk" :>
      [description |-> <<"Futuristic aesthetic with neon colors, dark backgrounds, and glitch effects.">>,
       examples |-> <<<<"Cyberpunk city skyline">>, <<"Neon samurai helmet">>, <<"Glitch art triangle">>>>] @@
    "Low Poly" :>
      [description |-> <<"3D mesh style made of non-overlapping triangles.">>,
       examples |-> <<<<"Low poly fox head">>, <<"Geometric mountain landscape">>, <<"Low poly heart 3d">>>>] @@
    "Pixel Art" :>
      [description |-> <<"Retro 8-bit or 16-bit aesthetic aligned to a grid.">>,
       examples |-> <<<<"8-bit sword sprite">>, <<"Pixel art burger">>, <<"Retro game character">>>>] @@
    "Gradient" :>
      [description |-> <<"Modern designs focusing on smooth color transitions and fluidity.">>,
       examples |-> <<<<"Holographic gradient sphere">>, <<"Fluid shape background">>, <<"Sunset gradient logo">>>>] @@
    "Hand Drawn" :>
      [description |-> <<"Organic lines and imperfect shapes for a sketch-like feel.">>,
       examples |-> <<<<"Sketchy notebook doodle">>, <<"Hand drawn arrows set">>, <<"Pencil sketch of a dog">>>>] @@
    "Pop Art" :>
      [description |-> <<"Bold outlines and vibrant colors inspired by comic books and Warhol.">>,
       examples |-> <<<<"Pop art banana">>, <<"Comic book explosion">>, <<"Retro woman portrait">>>>] @@
    "Paper Cutout" :>
      [description |-> <<"Layered effect mimicking paper craft with drop shadows.">>,
       examples |-> <<<<"Paper cutout forest">>, <<"Layered topographic map">>, <<"Paper craft flower">>>>]

\* FileReader.readAsDataURL result
DataUrl(file) == <<"data:">> \o file.type \o <<";base64", ",">> \o file.base64
\* result.split(',')[1]
RECURSIVE UpToComma(_)
UpToComma(s) ==
    IF s = <<>> \/ Head(s) = "," THEN <<>> ELSE <<Head(s)>> \o UpToComma(Tail(s))
RECURSIVE SplitCommaSecond(_)
SplitCommaSecond(s) ==
    IF s = <<>> THEN <<>>
    ELSE IF Head(s) = "," THEN UpToComma(Tail(s))
    ELSE SplitCommaSecond(Tail(s))

\* onChange of the text input (disabled while loading)
SetInput(value) ==
    /\ status # LOADING
    /\ input' = value
    /\ lastOp' = Op("setInput", TRUE, NULL)
    /\ UNCHANGED <<appVars, selectedImage, selectedStyle, traceSettings, readers, inflight>>

\* onClick of a style button
SelectStyle(style) ==
    /\ selectedStyle' = style
    /\ lastOp' = Op("setSelectedStyle", TRUE, NULL)
    /\ UNCHANGED <<appVars, input, selectedImage, traceSettings, readers, inflight>>

SetTraceSettings(name, next) ==
    /\ traceSettings' = next
    /\ lastOp' = Op(name, TRUE, NULL)
    /\ UNCHANGED <<appVars, input, selectedImage, selectedStyle, readers, inflight>>

\* The settings toolbar is rendered for the two advanced styles only; the
\* complexity and colour controls for Vector Trace, the fill control for Line Art.
ToggleComplexity(level) ==
    /\ selectedStyle = "Vector Trace"
    /\ SetTraceSettings("toggleComplexity", [traceSettings EXCEPT !.complexity = level])
ToggleColors(mode) ==
    /\ selectedStyle = "Vector Trace"
    /\ SetTraceSettings("toggleColors", [traceSettings EXCEPT !.colors = mode])
ToggleLineFill(fill) ==
    /\ selectedStyle = "Line Art"
    /\ SetTraceSettings("toggleLineFill", [traceSettings EXCEPT !.lineFill = fill])
ToggleStrokeWeight(weight) ==
    /\ IsAdvanced(selectedStyle)
    /\ SetTraceSettings("toggleStrokeWeight", [traceSettings EXCEPT !.strokeWeight = weight])
ToggleLineCap(cap) ==
    /\ IsAdvanced(selectedStyle)
    /\ SetTraceSettings("toggleLineCap", [traceSettings EXCEPT !.lineCap = cap])

\* handleFileSelect -> processFile, up to reader.readAsDataURL(file).  The upload
\* button is rendered while no image is attached and is disabled while loading.
\* The onloadend closure keeps the file and the selectedStyle of this render.
HandleFileSelect(file) ==
    /\ status # LOADING
    /\ selectedImage = NULL
    /\ BagCardinality(readers) < MaxReaders
    /\ IF StartsWith(file.type, <<"i","m","a","g","e","/">>)
       THEN /\ readers' = readers (+) SetToBag({[file |-> file, selectedStyle |-> selectedStyle]})
            /\ lastOp' = Op("processFile", TRUE, file)
       ELSE /\ readers' = readers
            /\ lastOp' = Op("processFile", FALSE, file)
    /\ UNCHANGED <<appVars, formVars, inflight>>

\* The style processFile's closure compares with 'Flat'.
StyleSeenByReader(reader, current) == reader.selectedStyle

\* reader.onloadend.  loaded = FALSE: the read failed, reader.result is null and
\* result.split throws before any state is set.
ReaderLoadEnd(reader, loaded) ==
    /\ BagIn(reader, readers)
    /\ readers' = readers (-) SetToBag({reader})
    /\ lastOp' = ImageOp("onloadend", loaded, reader)
    /\ IF loaded
       THEN LET result == DataUrl(reader.file)
            IN  /\ selectedImage' = [data |-> SplitCommaSecond(result),
                                     mimeType |-> reader.file.type,
                                     previewUrl |-> result]
                /\ selectedStyle' = IF StyleSeenByReader(reader, selectedStyle) = "Flat"
                                    THEN "Vector Trace"
                                    ELSE selectedStyle
       ELSE UNCHANGED <<selectedImage, selectedStyle>>
    /\ UNCHANGED <<appVars, input, traceSettings, inflight>>

\* Faulty variant: the style is not reset.
ClearImageKeepsStyle ==
    /\ selectedImage # NULL
    /\ selectedImage' = NULL
    /\ lastOp' = ImageOp("clearImage", TRUE, NULL)
    /\ UNCHANGED <<appVars, input, selectedStyle, traceSettings, readers, inflight>>
\* clearImage: the X button of the image preview, rendered while an image is attached.
ClearImage ==
    /\ selectedImage # NULL
    /\ selectedImage' = NULL
    /\ selectedStyle' = IF selectedStyle = "Vector Trace" THEN "Flat" ELSE selectedStyle
    /\ lastOp' = ImageOp("clearImage", TRUE, NULL)
    /\ UNCHANGED <<appVars, input, traceSettings, readers, inflight>>

\* ---------------------------------------------------------------- App
\* Faulty variant: the previous error and artifact are not cleared.
HandleGenerateKeepsResult(prompt, image, style, settings) ==
    /\ status' = LOADING
    /\ UNCHANGED <<error, currentSvg>>
    /\ inflight' = inflight (+) SetToBag({GenerateContentCall(prompt, image, style, settings)})
\* handleGenerate up to the await of generateSvgFromPrompt -> generateContent:
\* generateSvgFromPrompt has composed the prompts and made the call.
\* The three setState calls are one render (React batches them in the handler).
HandleGenerate(prompt, image, style, settings) ==
    /\ status' = LOADING
    /\ error' = NULL
    /\ currentSvg' = NULL
    /\ inflight' = inflight (+) SetToBag({GenerateContentCall(prompt, image, style, settings)})

\* Faulty variants of the guard: no LOADING test, IDLE only, no trim.
SubmitAllowedWhileLoading(text, image, st) == Truthy(Trim(text)) \/ image # NULL
SubmitAllowedFromIdleOnly(text, image, st) ==
    (Truthy(Trim(text)) \/ image # NULL) /\ st = IDLE
SubmitAllowedUntrimmed(text, image, st) ==
    (Truthy(text) \/ image # NULL) /\ st # LOADING
\* The guard of handleSubmit.
SubmitAllowed(text, image, st) ==
    (Truthy(Trim(text)) \/ image # NULL) /\ st # LOADING

\* Faulty variant: the settings are passed for every style.
HandleSubmitAlwaysPassesSettings ==
    /\ IF SubmitAllowed(input, selectedImage, status)
       THEN /\ HandleGenerate(Trim(input), selectedImage, selectedStyle, traceSettings)
            /\ lastOp' = Op("handleSubmit", TRUE, NULL)
       ELSE /\ UNCHANGED <<appVars, inflight>>
            /\ lastOp' = Op("handleSubmit", FALSE, NULL)
    /\ UNCHANGED <<formVars, readers>>
\* handleSubmit
HandleSubmit ==
    /\ IF SubmitAllowed(input, selectedImage, status)
       THEN /\ HandleGenerate(Trim(input), selectedImage, selectedStyle,
                              IF IsAdvanced(selectedStyle) THEN traceSettings ELSE NULL)
            /\ lastOp' = Op("handleSubmit", TRUE, NULL)
       ELSE /\ UNCHANGED <<appVars, inflight>>
            /\ lastOp' = Op("handleSubmit", FALSE, NULL)
    /\ UNCHANGED <<formVars, readers>>

\* err.toString() of an Error
ErrorToString(err) ==
    IF Truthy(err.message) THEN <<"Error: ">> \o err.message ELSE <<"Error">>

\* The ApiError the catch block of handleGenerate stores.
ApiError(err) ==
    [message |-> OrElse(err.message, <<"Generation Failed">>),
     details |-> OrElse(err.details,
                        OrElse(ErrorToString(err),
                               <<"An unexpected error occurred while contacting Gemini.">>)),
     suggestion |-> err.suggestion]

\* The GeneratedSvg handleGenerate builds.
NewSvg(request, svgContent, uuid, now) ==
    [id |-> uuid,
     content |-> svgContent,
     prompt |-> OrElse(request.prompt,
                       IF request.image # NULL THEN <<"Image to SVG Conversion">>
                                               ELSE <<"Generated SVG">>),
     timestamp |-> now]

\* Faulty variant: a failed call puts the machine back to IDLE.
SettleFailureToIdle(request, outcome) ==
    /\ BagIn(request, inflight)
    /\ inflight' = inflight (-) SetToBag({request})
    /\ LET r == GenerateSvgFromPrompt(outcome)
       IN  /\ lastOp' = Op("settle", r.ok, outcome)
           /\ IF r.ok
              THEN /\ \E uuid \in 1..MaxUuid, now \in 1..MaxClock :
                        currentSvg' = NewSvg(request, r.value, uuid, now)
                   /\ status' = SUCCESS
                   /\ error' = error
              ELSE /\ status' = IDLE
                   /\ error' = error
                   /\ currentSvg' = currentSvg
    /\ UNCHANGED <<formVars, readers>>
\* Faulty variant: a failed call is issued again instead of being surfaced.
SettleRetriesOnError(request, outcome) ==
    /\ BagIn(request, inflight)
    /\ LET r == GenerateSvgFromPrompt(outcome)
       IN  /\ lastOp' = Op("settle", r.ok, outcome)
           /\ IF r.ok
              THEN /\ \E uuid \in 1..MaxUuid, now \in 1..MaxClock :
                        currentSvg' = NewSvg(request, r.value, uuid, now)
                   /\ status' = SUCCESS
                   /\ error' = error
                   /\ inflight' = inflight (-) SetToBag({request})
              ELSE UNCHANGED <<appVars, inflight>>
    /\ UNCHANGED <<formVars, readers>>
\* handleGenerate from the point where generateContent settles with outcome:
\* the rest of generateSvgFromPrompt, then the rest of the try or the catch.
\* The setState calls after the await are taken as one render (automatic
\* batching of React 18 and later).
Settle(request, outcome) ==
    /\ BagIn(request, inflight)
    /\ inflight' = inflight (-) SetToBag({request})
    /\ LET r == GenerateSvgFromPrompt(outcome)
       IN  /\ lastOp' = Op("settle", r.ok, outcome)
           /\ IF r.ok
              THEN /\ \E uuid \in 1..MaxUuid, now \in 1..MaxClock :
                        currentSvg' = NewSvg(request, r.value, uuid, now)
                   /\ status' = SUCCESS
                   /\ error' = error
              ELSE /\ status' = ERROR
                   /\ error' = ApiError(r.error)
                   /\ currentSvg' = currentSvg
    /\ UNCHANGED <<formVars, readers>>

ServiceResponds == \E request \in BagToSet(inflight), text \in Replies :
    Settle(request, Responds(text))
ServiceRejects == \E request \in BagToSet(inflight), message \in ErrorMessages :
    Settle(request, Rejects(message))

\* ---------------------------------------------------------------- specifications
Init ==
    /\ status = IDLE
    /\ currentSvg = NULL
    /\ error = NULL
    /\ input = <<>>
    /\ selectedImage = NULL
    /\ selectedStyle = "Flat"
    /\ traceSettings = InitialTraceSettings
    /\ readers = EmptyBag
    /\ inflight = EmptyBag
    /\ lastOp = [op |-> "init", ok |-> TRUE, status |-> IDLE, style |-> NoStyle, arg |-> NULL]

TypeInput == \E value \in PromptInputs : SetInput(value)
ClickStyle == \E style \in LifecycleStyles : SelectStyle(style)
ClickLineFill == \E fill \in TraceLineFill : ToggleLineFill(fill)
PickFile == \E file \in Files : HandleFileSelect(file)
FileRead == \E reader \in BagToSet(readers), loaded \in BOOLEAN : ReaderLoadEnd(reader, loaded)

\* The App lifecycle with the form that drives it.
Next ==
    \/ TypeInput
    \/ ClickStyle
    \/ ClickLineFill
    \/ PickFile
    \/ FileRead
    \/ ClearImage
    \/ HandleSubmit
    \/ ServiceResponds
    \/ ServiceRejects

Spec == Init /\ [][Next]_vars

ClickAnyStyle == \E style \in SvgStyle : SelectStyle(style)

\* The form alone, over all 14 styles: style selection and image attach/clear.
NextForm ==
    \/ ClickAnyStyle
    \/ PickFile
    \/ FileRead
    \/ ClearImage

SpecForm == Init /\ [][NextForm]_vars

ClickComplexity == \E level \in TraceComplexity : ToggleComplexity(level)
ClickColors == \E mode \in TraceColors : ToggleColors(mode)
ClickStrokeWeight == \E weight \in TraceStrokeWeight : ToggleStrokeWeight(weight)
ClickLineCap == \E cap \in TraceLineCap : ToggleLineCap(cap)

\* The style buttons and the settings toolbar alone, over all styles and values.
NextSettings ==
    \/ ClickAnyStyle
    \/ ClickComplexity
    \/ ClickColors
    \/ ClickLineFill
    \/ ClickStrokeWeight
    \/ ClickLineCap

SpecSettings == Init /\ [][NextSettings]_vars

ServiceRejectsAny == \E request \in BagToSet(inflight), message \in ClassifierMessages :
    Settle(request, Rejects(message))

\* Submissions whose service call rejects, over the classifier's messages.
NextErrors ==
    \/ TypeInput
    \/ HandleSubmit
    \/ ServiceRejectsAny

SpecErrors == Init /\ [][NextErrors]_vars

\* The two pure functions of the composer on their own: the arguments are drawn
\* at the start and each call records its result beside them.
InitComposer ==
    /\ status = IDLE
    /\ currentSvg = NULL
    /\ error = NULL
    /\ input = <<>>
    /\ selectedImage = NULL
    /\ selectedStyle = "Flat"
    /\ traceSettings = InitialTraceSettings
    /\ readers = EmptyBag
    /\ inflight = EmptyBag
    /\ \E style \in StyleStrings, settings \in TraceSettingsArgs :
         lastOp = [op |-> "arguments", ok |-> TRUE, status |-> IDLE, style |-> NoStyle,
                   arg |-> [style |-> style, traceSettings |-> settings]]
CallGetTemperatureForStyle ==
    /\ lastOp' = Op("getTemperatureForStyle", TRUE,
                    [style |-> lastOp.arg.style, traceSettings |-> lastOp.arg.traceSettings,
                     temperature |-> GetTemperatureForStyle(lastOp.arg.style)])
    /\ UNCHANGED <<appVars, formVars, readers, inflight>>
CallGetStyleInstructions ==
    /\ lastOp' = Op("getStyleInstructions", TRUE,
                    [style |-> lastOp.arg.style, traceSettings |-> lastOp.arg.traceSettings,
                     rule |-> GetStyleInstructions(lastOp.arg.style,
                                                   lastOp.arg.traceSettings)])
    /\ UNCHANGED <<appVars, formVars, readers, inflight>>

NextComposer ==
    \/ CallGetTemperatureForStyle
    \/ CallGetStyleInstructions

SpecComposer == InitComposer /\ [][NextComposer]_vars

\* Submissions of a typed prompt whose service call returns, over the replies
\* built from pieces.
InitInterpret ==
    /\ status = IDLE
    /\ currentSvg = NULL
    /\ error = NULL
    /\ input = <<"a">>
    /\ selectedImage = NULL
    /\ selectedStyle = "Flat"
    /\ traceSettings = InitialTraceSettings
    /\ readers = EmptyBag
    /\ inflight = EmptyBag
    /\ lastOp = [op |-> "setInput", ok |-> TRUE, status |-> IDLE, style |-> NoStyle,
                 arg |-> NULL]
ServiceRespondsAny == \E request \in BagToSet(inflight), text \in PieceReplies :
    Settle(request, Responds(text))

NextInterpret ==
    \/ HandleSubmit
    \/ ServiceRespondsAny

SpecInterpret == InitInterpret /\ [][NextInterpret]_vars

\* Submissions of a typed prompt over all 14 styles and all values of the
\* settings: the form starts in any state the style buttons and the settings
\* toolbar lead to.
InitSubmit ==
    /\ status = IDLE
    /\ currentSvg = NULL
    /\ error = NULL
    /\ input = <<"a">>
    /\ selectedImage = NULL
    /\ selectedStyle \in SvgStyle
    /\ traceSettings \in TraceSettings
    /\ readers = EmptyBag
    /\ inflight = EmptyBag
    /\ lastOp = [op |-> "setInput", ok |-> TRUE, status |-> IDLE, style |-> NoStyle,
                 arg |-> NULL]

NextSubmit ==
    \/ HandleSubmit
    \/ ServiceResponds
    \/ ServiceRejects

SpecSubmit == InitSubmit /\ [][NextSubmit]_vars

\* ---------------------------------------------------------------- properties
\* The prompt field holds something other than whitespace.
NonBlank(text) == \E i \in 1..Len(text) : ~IsSpace(text[i])
HasContent == NonBlank(input) \/ selectedImage # NULL

\* C1: in every reachable state the displayed slot matches the status 1:1:
\* SUCCESS exactly when currentSvg is set, ERROR exactly when error is set, both
\* null in IDLE and LOADING, and never both set.
C1_SlotMatchesStatus ==
    /\ (status = SUCCESS) <=> (currentSvg # NULL)
    /\ (status = ERROR) <=> (error # NULL)
    /\ status \in {IDLE, LOADING} => (currentSvg = NULL /\ error = NULL)
    /\ ~(currentSvg # NULL /\ error # NULL)
\* A generation that succeeded and replaced the cleared slot of the LOADING state.
C1_Witness ==
    /\ lastOp.op = "settle" /\ lastOp.ok /\ lastOp.status = LOADING
    /\ status = SUCCESS /\ currentSvg # NULL /\ error = NULL

\* C2: a submit attempted while status is LOADING changes nothing and calls
\* onGenerate for no request, and at most one service request is outstanding
\* at any time.
C2_SubmitWhileLoadingDropped ==
    /\ [](BagCardinality(inflight) <= 1)
    /\ [][(lastOp'.op = "handleSubmit" /\ status = LOADING)
            => (~lastOp'.ok /\ UNCHANGED <<appVars, formVars, inflight>>)]_vars
\* A submit with a prompt was dropped while the one request was outstanding.
C2_Witness ==
    /\ lastOp.op = "handleSubmit" /\ ~lastOp.ok /\ lastOp.status = LOADING
    /\ NonBlank(input)
    /\ status = LOADING /\ BagCardinality(inflight) = 1

\* C3: a submit with an empty or whitespace-only prompt and no attached image
\* leaves status, currentSvg and error unchanged and makes no service request,
\* whatever the status.
C3_EmptySubmitIsNoOp ==
    [][(lastOp'.op = "handleSubmit" /\ ~NonBlank(input) /\ selectedImage = NULL)
         => (~lastOp'.ok /\ UNCHANGED <<appVars, inflight>>)]_vars
\* A whitespace-only prompt was submitted, and dropped, in the ERROR state.
C3_Witness ==
    /\ lastOp.op = "handleSubmit" /\ ~lastOp.ok /\ lastOp.status = ERROR
    /\ input = <<" ">> /\ selectedImage = NULL
    /\ status = ERROR /\ error # NULL /\ inflight = EmptyBag

\* C4: every accepted submit (non-blank prompt or attached image, status not
\* LOADING) moves the status to LOADING and clears the error and the artifact.
C4_AcceptedSubmitEntersLoading ==
    [][(lastOp'.op = "handleSubmit" /\ HasContent /\ status # LOADING)
         => (status' = LOADING /\ error' = NULL /\ currentSvg' = NULL)]_vars
\* A submit accepted in the ERROR state: the error it showed is gone.
C4_Witness ==
    /\ lastOp.op = "handleSubmit" /\ lastOp.ok /\ lastOp.status = ERROR
    /\ status = LOADING /\ error = NULL /\ currentSvg = NULL

\* C5: the status leaves LOADING only when the service call settles, and then
\* for SUCCESS or ERROR: SUCCESS, with an artifact holding the extracted markup,
\* exactly when the service returned and the interpreter found markup, ERROR
\* with an error in every other case.
C5_LoadingSettles ==
    [][(status = LOADING /\ (status' # LOADING \/ lastOp'.op = "settle"))
         => LET outcome == lastOp'.arg
                found == outcome.kind = "text" /\ ExtractSvg(outcome.text).ok
            IN  /\ lastOp'.op = "settle"
                /\ status' \in {SUCCESS, ERROR}
                /\ (status' = SUCCESS) <=> found
                /\ found => /\ currentSvg' # NULL
                            /\ currentSvg'.content = ExtractSvg(outcome.text).value
                            /\ error' = NULL
                /\ ~found => (error' # NULL /\ currentSvg' = NULL)]_vars
\* A reply with text around the markup ended in SUCCESS with the markup alone.
C5_Witness ==
    /\ lastOp.op = "settle" /\ lastOp.status = LOADING
    /\ lastOp.arg = Responds(<<"x">> \o OpenTag \o <<">">> \o CloseTag \o <<"y">>)
    /\ status = SUCCESS
    /\ currentSvg # NULL /\ currentSvg.content = OpenTag \o <<">">> \o CloseTag

\* C6: there is no terminal state: in every SUCCESS or ERROR state with a
\* non-blank prompt or an attached image a submit can be taken, and every such
\* submit is accepted and starts a LOADING cycle with one request.
C6_NoTerminalState ==
    /\ []((status \in {SUCCESS, ERROR} /\ HasContent)
            => ENABLED (HandleSubmit /\ status' = LOADING))
    /\ [][(lastOp'.op = "handleSubmit" /\ status \in {SUCCESS, ERROR} /\ HasContent)
            => (lastOp'.ok /\ status' = LOADING /\ BagCardinality(inflight') = 1)]_vars
\* A new cycle started from the SUCCESS state.
C6_Witness ==
    /\ lastOp.op = "handleSubmit" /\ lastOp.ok /\ lastOp.status = SUCCESS
    /\ status = LOADING /\ BagCardinality(inflight) = 1

\* C7: when a file read completes and the image becomes attached, the style
\* becomes 'Vector Trace' if the style active at that moment is 'Flat' and is
\* left unchanged otherwise.
C7_AttachSwitchesActiveFlat ==
    [][(lastOp'.op = "onloadend" /\ lastOp'.ok)
         => /\ selectedImage' # NULL
            /\ selectedStyle' = IF selectedStyle = "Flat" THEN "Vector Trace"
                                                        ELSE selectedStyle]_vars

\* C8: clearing the image sets the image to none, switches 'Vector Trace' to
\* 'Flat' and leaves any other style unchanged.
C8_ClearImageResetsTrace ==
    [][lastOp'.op = "clearImage"
         => /\ selectedImage' = NULL
            /\ selectedStyle' = IF selectedStyle = "Vector Trace" THEN "Flat"
                                                                ELSE selectedStyle]_vars
\* An image was cleared while 'Vector Trace' was active.
C8_Witness ==
    /\ lastOp.op = "clearImage" /\ lastOp.style = "Vector Trace"
    /\ selectedImage = NULL /\ selectedStyle = "Flat"

\* The category the ordered rule list gives a lowercased message.
C9_Category(low) ==
    IF Includes(low, KwSafety) \/ Includes(low, KwBlocked) THEN <<"Content Flagged">>
    ELSE IF Includes(low, Kw429) \/ Includes(low, KwQuota) \/ Includes(low, KwExhausted)
    THEN <<"System Overloaded">>
    ELSE IF Includes(low, Kw400) \/ Includes(low, KwInvalidArgument)
    THEN <<"Invalid Request">>
    ELSE IF Includes(low, KwApikey) \/ Includes(low, Kw403)
    THEN <<"Authentication Error">>
    ELSE <<"Connection Error">>
\* The fixed suggestion of each category.
C9_Suggestion(category) ==
    CASE category = <<"Content Flagged">> ->
           <<"Try rephrasing your prompt to be more abstract or removing sensitive keywords.">>
      [] category = <<"System Overloaded">> ->
           <<"Please wait a minute before trying again.">>
      [] category = <<"Invalid Request">> ->
           <<"Try using a smaller image (under 4MB) or a standard format like JPG/PNG.">>
      [] category = <<"Authentication Error">> ->
           <<"Please check your environment configuration.">>
      [] OTHER -> <<"Check your internet connection or try again later.">>

\* C9: a service error without a suggestion is classified by its lowercased
\* message, first matching rule first: safety/blocked, then 429/quota/exhausted,
\* then 400/invalid argument, then apikey/403, else Connection Error; the
\* category's fixed, non-empty suggestion comes with it.
C9_OrderedClassification ==
    (lastOp.op = "settle" /\ lastOp.arg.kind = "throw")
      => /\ status = ERROR
         /\ error # NULL
         /\ error.message = C9_Category(ToLowerCase(lastOp.arg.message))
         /\ error.suggestion = C9_Suggestion(error.message)
         /\ error.suggestion # <<>>
\* A message matching the first and the second rule got the first category.
C9_Witness ==
    /\ lastOp.op = "settle" /\ lastOp.arg.kind = "throw"
    /\ lastOp.arg.message = Kw429 \o <<"B","L","O","C","K","E","D">>
    /\ error # NULL /\ error.message = <<"Content Flagged">>

\* C10: the interpreter's FormatError, which carries a suggestion, reaches the
\* ERROR state with its own message, details and suggestion and is not given
\* one of the service categories.
C10_FormatErrorPassesThrough ==
    (lastOp.op = "settle" /\ lastOp.arg.kind = "text" /\ ~lastOp.ok)
      => /\ status = ERROR
         /\ error =
              [message |-> <<"Generation Format Error">>,
               details |-> <<"The model generated a response but no valid SVG code was found.">>,
               suggestion |-> <<"Try simplifying your prompt or selecting the 'Flat' style which is more consistent.">>]
\* A reply without markup ended in ERROR showing the FormatError.
C10_Witness ==
    /\ lastOp.op = "settle" /\ lastOp.arg = Responds(<<"n", "o">>)
    /\ status = ERROR /\ error # NULL
    /\ error.message = <<"Generation Format Error">>


\* C11: no error is retried: an accepted submit issues exactly one service call,
\* no other handler issues one, a call that settles is gone, a failed call ends
\* in ERROR, and the ERROR state has no call outstanding and is left only by an
\* accepted submit.
C11_NoAutomaticRetry ==
    [][/\ (lastOp'.op = "handleSubmit" /\ lastOp'.ok)
            => BagCardinality(inflight') = BagCardinality(inflight) + 1
       /\ (lastOp'.op = "handleSubmit" /\ ~lastOp'.ok) => inflight' = inflight
       /\ lastOp'.op = "settle"
            => /\ BagCardinality(inflight') = BagCardinality(inflight) - 1
               /\ ~lastOp'.ok => status' = ERROR
       /\ lastOp'.op \notin {"handleSubmit", "settle"} => inflight' = inflight
       /\ status = ERROR
            => /\ inflight = EmptyBag
               /\ status' # ERROR => (lastOp'.op = "handleSubmit" /\ lastOp'.ok)]_vars
\* A rejected call left the machine in ERROR with nothing outstanding.
C11_Witness ==
    /\ lastOp.op = "settle" /\ ~lastOp.ok /\ lastOp.arg.kind = "throw"
    /\ status = ERROR /\ error # NULL /\ inflight = EmptyBag


\* C12: the sampling temperature is a fixed lookup on the style: 0.15 for
\* Vector Trace, Blueprint, Pixel Art and Isometric, 0.3 for Flat, Material,
\* Minimalist and Low Poly, 0.6 for Hand Drawn, Gradient, Cyberpunk and Pop Art,
\* and 0.4 for Line Art, Paper Cutout and any string that is no style.
C12_TemperatureTable ==
    lastOp.op = "getTemperatureForStyle"
      => LET style == lastOp.arg.style
             t == lastOp.arg.temperature
         IN  /\ style \in {"Vector Trace", "Blueprint", "Pixel Art", "Isometric"} <=> t = 15
             /\ style \in {"Flat", "Material", "Minimalist", "Low Poly"} <=> t = 30
             /\ style \in {"Hand Drawn", "Gradient", "Cyberpunk", "Pop Art"} <=> t = 60
             /\ (style \in {"Line Art", "Paper Cutout"} \/ style \notin SvgStyle) <=> t = 40
\* The lookup was made for a string that is no style and gave the default.
C12_Witness ==
    /\ lastOp.op = "getTemperatureForStyle"
    /\ lastOp.arg.style \notin SvgStyle
    /\ lastOp.arg.temperature = 40


\* The kind of directive a label of the settings block opens.
C13_Kind(atom) ==
    CASE atom \in {"\n- SIMPLIFY PATHS:", "\n- HIGH FIDELITY:", "\n- BALANCED DETAIL:"}
           -> "complexity"
      [] atom \in {"\n- MONOCHROME:", "\n- LIMITED PALETTE:", "\n- FULL COLOR:"} -> "colors"
      [] atom = "\n- FILL STYLE:" -> "fill"
      [] atom = "\n- STROKE WEIGHT:" -> "stroke"
      [] atom = "\n- STROKE LINECAP:" -> "cap"
      [] OTHER -> "text"
C13_IsLabel(atom) == C13_Kind(atom) # "text"
\* The kinds of the directives of a rule, in the order they are written.
C13_Kinds(rule) ==
    LET labels == SelectSeq(rule, C13_IsLabel)
    IN  [i \in 1..Len(labels) |-> C13_Kind(labels[i])]
C14_TagAt(text, tag) == {i \in 1..Len(text) : MatchAt(ToLowerCase(text), tag, i)}
C14_Min(S) == CHOOSE x \in S : \A y \in S : x <= y
\* C14: when the reply has an opening tag followed later by a closing tag (case
\* ignored), the attempt succeeds with exactly the span from the first opening
\* tag to the first closing tag after it, the text before and after dropped;
\* with several blocks in the reply that is the first one.
C14_FirstSpanVerbatim ==
    (lastOp.op = "settle" /\ lastOp.arg.kind = "text")
      => LET text == lastOp.arg.text
             opens == C14_TagAt(text, OpenTag)
             closes == C14_TagAt(text, CloseTag)
         IN  (\E i \in opens, j \in closes : i < j)
               => LET first == C14_Min(opens)
                      last == C14_Min({j \in closes : j > first})
                  IN  /\ status = SUCCESS
                      /\ currentSvg # NULL
                      /\ currentSvg.content = SubSeq(text, first, last + Len(CloseTag) - 1)
\* A reply of two blocks with text before it: the first block was returned.
C14_Witness ==
    /\ lastOp.op = "settle" /\ lastOp.arg.kind = "text"
    /\ lastOp.arg.text = SplitOpenTag \o OpenTag \o <<"<", "/", "S", "V", "G", ">">> \o CloseTag
    /\ status = SUCCESS
    /\ currentSvg.content = OpenTag \o <<"<", "/", "S", "V", "G", ">">>


\* The attempt failed with the format error of the interpreter, its fixed
\* detail and a suggestion.
C15_FormatErrorShown ==
    /\ status = ERROR
    /\ currentSvg = NULL
    /\ error # NULL
    /\ error.message = <<"Generation Format Error">>
    /\ error.details = <<"The model generated a response but no valid SVG code was found.">>
    /\ error.suggestion # <<>>
\* C15 as stated: a reply that has no opening or no closing tag marker ends in
\* ERROR with the format error, never in SUCCESS.
C15_NoMarkerInReplyFails ==
    (lastOp.op = "settle" /\ lastOp.arg.kind = "text")
      => ((C14_TagAt(lastOp.arg.text, OpenTag) = {}
            \/ C14_TagAt(lastOp.arg.text, CloseTag) = {})
           => C15_FormatErrorShown)
\* C15, amended: a reply (empty or missing text included) that has no opening
\* or no closing tag marker once its fence delimiters are removed ends in
\* ERROR with the format error, its fixed detail and a non-empty suggestion,
\* never in SUCCESS.
C15_NoMarkerAfterFencesFails ==
    (lastOp.op = "settle" /\ lastOp.arg.kind = "text")
      => LET stripped == ReplaceAll(ReplaceAll(ReplaceAll(lastOp.arg.text, FenceXml),
                                               FenceSvg), Fence)
         IN  (C14_TagAt(stripped, OpenTag) = {} \/ C14_TagAt(stripped, CloseTag) = {})
               => C15_FormatErrorShown
\* A reply with a closing tag and no opening tag, fences removed or not, failed.
C15_Witness ==
    /\ lastOp.op = "settle" /\ lastOp.arg.kind = "text"
    /\ lastOp.arg.text = CloseTag \o <<"<", "/", "S", "V", "G", ">">>
    /\ C15_FormatErrorShown

\* C20: any text the interpreter returns, by the direct match or by the
\* fallback, is a single span: it begins with the opening tag marker and ends
\* with the closing tag marker, the opening marker before the closing one.
C20_ReturnedTextIsOneSpan ==
    (lastOp.op = "settle" /\ lastOp.arg.kind = "text" /\ status = SUCCESS)
      => LET content == ToLowerCase(currentSvg.content)
         IN  /\ StartsWith(content, OpenTag)
             /\ MatchAt(content, CloseTag, Len(content) - Len(CloseTag) + 1)
             /\ Len(content) >= Len(OpenTag) + Len(CloseTag)


\* C16: the style catalog is total over the 14 styles: every style has its own
\* description and example prompts, and the composed rule of every style opens
\* with that style's own instruction text, never with the generic default.
C16_CatalogIsTotal ==
    (lastOp.op = "getStyleInstructions" /\ lastOp.arg.style \in SvgStyle)
      => LET style == lastOp.arg.style
             rule == lastOp.arg.rule
         IN  /\ style \in DOMAIN STYLE_GUIDES
             /\ STYLE_GUIDES[style].description # <<>>
             /\ Len(STYLE_GUIDES[style].examples) > 0
             /\ style \in DOMAIN instructions
             /\ rule # <<>>
             /\ rule[1] # "Goal: High quality vector art."
             /\ \A other \in SvgStyle \ {style} :
                  other \in DOMAIN instructions => rule[1] # instructions[other][1]


\* The rule has a settings block: its header or one of its directives.
C17_HasSettingsBlock(rule) ==
    \E i \in 1..Len(rule) : rule[i] = " SETTINGS:" \/ C13_IsLabel(rule[i])
\* C17: trace settings take effect only for the two advanced styles: an
\* accepted submit passes the settings exactly when the style active at submit
\* time is Vector Trace or Line Art (undefined otherwise), and the composed
\* style rule has a settings block exactly when the style is advanced and
\* settings were supplied, whatever values the settings hold.
C17_SettingsOnlyForAdvancedStyles ==
    [][(lastOp'.op = "handleSubmit" /\ lastOp'.ok)
         => \E r \in BagToSet(inflight') :
              /\ inflight' = inflight (+) SetToBag({r})
              /\ r.style = selectedStyle
              /\ r.traceSettings =
                   (IF selectedStyle \in {"Vector Trace", "Line Art"}
                    THEN traceSettings ELSE NULL)
              /\ C17_HasSettingsBlock(r.styleRules)
                   <=> (r.style \in {"Vector Trace", "Line Art"} /\ r.traceSettings # NULL)
              /\ C17_HasSettingsBlock(r.systemInstruction)
                   <=> C17_HasSettingsBlock(r.styleRules)]_vars
\* A submit under a plain style while the settings hold values chosen under the
\* advanced styles: no settings were passed and the rule has no settings block.
C17_Witness ==
    /\ lastOp.op = "handleSubmit" /\ lastOp.ok
    /\ selectedStyle = "Paper Cutout"
    /\ traceSettings.complexity = "High" /\ traceSettings.lineFill = "Solid"
    /\ \E r \in BagToSet(inflight) :
         /\ r.style = "Paper Cutout"
         /\ r.traceSettings = NULL
         /\ ~C17_HasSettingsBlock(r.styleRules)


\* C18: every completion that writes status, currentSvg or error belongs to
\* the most recently accepted submit: an accepted submit starts with no call
\* outstanding and leaves exactly the call made from the submitted prompt,
\* image and style; while LOADING lasts that call stays the only one, whatever
\* the form does; only a submit or a completion writes the three fields; and
\* a completion is applied in LOADING, consumes that one call and, when it
\* succeeds, shows an artifact labelled from that call's prompt and image.
C18_CompletionBelongsToLatestSubmit ==
    [][/\ (lastOp'.op = "handleSubmit" /\ lastOp'.ok)
            => /\ inflight = EmptyBag
               /\ \E r \in BagToSet(inflight') :
                    /\ inflight' = SetToBag({r})
                    /\ r.prompt = Trim(input)
                    /\ r.image = selectedImage
                    /\ r.style = selectedStyle
       /\ (status = LOADING /\ status' = LOADING) => inflight' = inflight
       /\ (status' = LOADING) => BagCardinality(inflight') = 1
       /\ lastOp'.op \notin {"handleSubmit", "settle"} => UNCHANGED appVars
       /\ lastOp'.op = "settle"
            => /\ status = LOADING
               /\ inflight' = EmptyBag
               /\ \E r \in BagToSet(inflight) :
                    /\ inflight = SetToBag({r})
                    /\ lastOp'.ok
                         => currentSvg'.prompt =
                              (IF r.prompt # <<>> THEN r.prompt
                               ELSE IF r.image # NULL THEN <<"Image to SVG Conversion">>
                               ELSE <<"Generated SVG">>)]_vars
\* A completion of an image-only submit, applied after the image was cleared
\* from the form while the call was outstanding: the artifact is the image's.
C18_Witness ==
    /\ lastOp.op = "settle" /\ lastOp.ok /\ lastOp.status = LOADING
    /\ status = SUCCESS /\ inflight = EmptyBag
    /\ currentSvg.prompt = <<"Image to SVG Conversion">>
    /\ selectedImage = NULL

\* C19: IDLE is only the initial status: the status leaves IDLE only by an
\* accepted submit, for LOADING, and no submit, completion, image attach or
\* clear, or style or settings change ever returns it to IDLE.
C19_IdleOnlyInitially ==
    [][/\ status # IDLE => status' # IDLE
       /\ (status = IDLE /\ status' # IDLE)
            => (lastOp'.op = "handleSubmit" /\ lastOp'.ok /\ status' = LOADING)]_vars
\* After a failed attempt the image was cleared and the status is still ERROR.
C19_Witness ==
    /\ lastOp.op = "clearImage"
    /\ lastOp.status = ERROR
    /\ status = ERROR /\ error # NULL /\ inflight = EmptyBag

====
